---- MODULE Spec2Model ----
(***************************************************************************)
(* CloakShare "Safe Mirror": the per-tick pipeline of SafeMirror            *)
(* (src/src/safe_mirror.rs), the detector it drives                         *)
(* (src/src/sensitive_data_detector.rs) and the winit event handlers that   *)
(* call them (src/src/main.rs).                                             *)
(*                                                                         *)
(* The capture backend, the GPU renderer and the OCR engine are external:   *)
(* their answers are nondeterministic choices.                              *)
(***************************************************************************)
EXTENDS Integers, Sequences, FiniteSets, TLC

VARIABLES
    phase,                    \* "init" | "running" | "exited" | "panicked"
    pc,                       \* position inside the RedrawRequested handler
    capture_started,          \* screen_capture.start_capture succeeded
    sensitive_detector,       \* SafeMirror.sensitive_detector is Some
    frame_count,              \* SensitiveDataDetector.frame_count (u32)
    cached_sensitive_matches, \* SafeMirror.cached_sensitive_matches
    temp_file,                \* cloak_share_ocr.png exists on disk
    size,                     \* gpu_renderer.size(), the surface size
    surface,                  \* "ok" | "lost": the wgpu surface
    redraw_requested,         \* window.request_redraw() is pending
    texture_data,             \* local of update_and_render
    resolution,               \* local of update_and_render
    new_matches,              \* local of update_and_render
    render_result,            \* what update_and_render returned
    tick,                     \* observations of the handler run in progress
    last_nonempty,            \* the last non-empty detection result
    empty_run                 \* ticks with an empty result since then (capped)

vars == <<phase, pc, capture_started, sensitive_detector, frame_count,
          cached_sensitive_matches, temp_file, size, surface,
          redraw_requested, texture_data, resolution, new_matches,
          render_result, tick, last_nonempty, empty_run>>

----------------------------------------------------------------------------
(* Bounds of the model *)

\* width in bits of the modelled frame_count (u32 in the source)
CounterBits == 7

\* cap of the empty_run history counter
MaxEmptyRun == 70

(* Program constants *)

\* self.frame_count % 60
DetectionInterval == 60

CounterModulus == 2 ^ CounterBits

\* fallback of SafeMirror::new and update_and_render
DefaultResolution == [width |-> 1920, height |-> 1080]

\* fallback of App::resumed (window sizing)
WindowFallbackResolution == [width |-> 1280, height |-> 720]

\* confidence: 0.8, as a fraction
Confidence == <<8, 10>>

(* The environment *)

\* what the platform reports when the resolution query succeeds
DisplayResolution == [width |-> 1440, height |-> 900]

\* sizes a Resized event can carry
WindowSizes ==
    {[width |-> 800, height |-> 600], [width |-> 1280, height |-> 720],
     [width |-> 1440, height |-> 900]}

Pixels(res) == res.width * res.height

----------------------------------------------------------------------------
(* Text and the regex crate's matcher.  A text is a sequence of one-character
   strings; a position is the number of characters before it.  The alphabet
   is ASCII, on which \d, \s and \b of the regex crate are the classes below. *)

Digit == {"0", "1", "2", "3", "4", "5", "6", "7", "8", "9"}

Upper == {"A", "B", "C", "D", "E", "F", "G", "H", "I", "J", "K", "L", "M",
          "N", "O", "P", "Q", "R", "S", "T", "U", "V", "W", "X", "Y", "Z"}

Lower == {"a", "b", "c", "d", "e", "f", "g", "h", "i", "j", "k", "l", "m",
          "n", "o", "p", "q", "r", "s", "t", "u", "v", "w", "x", "y", "z"}

Alnum == Upper \cup Lower \cup Digit

WordChar == Alnum \cup {"_"}

Space == {" ", "\t", "\n", "\r"}

\* regex syntax trees
Cls(S) == [t |-> "cls", set |-> S]

NotCls(S) == [t |-> "ncls", set |-> S]

Wb == [t |-> "wb"]

Cat(parts) == [t |-> "cat", parts |-> parts]

Alt(parts) == [t |-> "alt", parts |-> parts]

\* greedy repetition r{min,max}; max = -1 is unbounded
Rep(r, min, max) == [t |-> "rep", r |-> r, min |-> min, max |-> max]

Opt(r) == Rep(r, 0, 1)

Plus(r) == Rep(r, 1, -1)

Ch(c) == Cls({c})

\* \b: exactly one side of the position is a word character
IsWordBoundary(s, i) ==
    LET before == i >= 1 /\ s[i] \in WordChar
        after == i < Len(s) /\ s[i + 1] \in WordChar
    IN  before # after

NoMatch == -1

Max(S) == CHOOSE x \in S : \A y \in S : y <= x

Min(S) == CHOOSE x \in S : \A y \in S : x <= y

IsClass(r) == r.t \in {"cls", "ncls"}

\* whether character c is in the class r
InClass(r, c) == IF r.t = "cls" THEN c \in r.set ELSE c \notin r.set

\* the longest run of class r from position i, at most limit characters
RunLength(r, s, i, limit) ==
    LET top == IF limit = -1 \/ limit > Len(s) - i THEN Len(s) - i ELSE limit
    IN  Max({k \in 0..top : \A j \in 1..k : InClass(r, s[i + j])})

\* Leftmost-first (backtracking-order) matching of the regexes of `stack`, one
\* after the other, from position i: the end position of the preferred match,
\* or NoMatch.  A greedy repetition prefers more iterations to fewer.
RECURSIVE Match(_, _, _)
RECURSIVE MatchAlt(_, _, _, _, _)
Match(stack, s, i) ==
    IF stack = <<>> THEN i
    ELSE LET r == Head(stack)
             rest == Tail(stack)
         IN  CASE IsClass(r) ->
                    IF i < Len(s) /\ InClass(r, s[i + 1])
                    THEN Match(rest, s, i + 1) ELSE NoMatch
               [] r.t = "wb" ->
                    IF IsWordBoundary(s, i) THEN Match(rest, s, i) ELSE NoMatch
               [] r.t = "cat" -> Match(r.parts \o rest, s, i)
               [] r.t = "alt" -> MatchAlt(r.parts, 1, rest, s, i)
               [] r.t = "rep" /\ IsClass(r.r) ->
                    \* a repeated character class: the longest count, from the
                    \* whole run downwards, after which the rest matches
                    LET run == RunLength(r.r, s, i, r.max)
                        good == {k \in r.min..run : Match(rest, s, i + k) # NoMatch}
                    IN  IF good = {} THEN NoMatch ELSE Match(rest, s, i + Max(good))
               [] r.t = "rep" /\ ~IsClass(r.r) ->
                    LET more == IF r.max = 0 THEN NoMatch
                                ELSE Match(<<r.r,
                                             Rep(r.r,
                                                 IF r.min > 0 THEN r.min - 1 ELSE 0,
                                                 IF r.max > 0 THEN r.max - 1 ELSE r.max)>>
                                           \o rest, s, i)
                    IN  IF more # NoMatch THEN more
                        ELSE IF r.min = 0 THEN Match(rest, s, i)
                        ELSE NoMatch

MatchAlt(alts, k, rest, s, i) ==
    IF k > Len(alts) THEN NoMatch
    ELSE LET e == Match(<<alts[k]>> \o rest, s, i)
         IN  IF e # NoMatch THEN e ELSE MatchAlt(alts, k + 1, rest, s, i)

\* Regex::find_iter: the successive non-overlapping leftmost matches, as
\* [start, end) position pairs.  ends[p] is the match starting at p, if any.
RECURSIVE NextMatches(_, _, _)
NextMatches(ends, n, pos) ==
    LET starts == {p \in pos..n : ends[p] # NoMatch}
    IN  IF starts = {} THEN <<>>
        ELSE LET p == Min(starts)
                 e == ends[p]
             IN  <<[start |-> p, end |-> e]>>
                 \o NextMatches(ends, n, IF e = p THEN p + 1 ELSE e)

FindIter(re, s) ==
    NextMatches([p \in 0..Len(s) |-> Match(<<re>>, s, p)], Len(s), 0)

\* regex_match.as_str()
AsStr(s, m) == SubSeq(s, m.start + 1, m.end)

----------------------------------------------------------------------------
(* SensitiveDataDetector::build_patterns *)

\* \b[A-Za-z0-9._%+-]+@[A-Za-z0-9.-]+\.[A-Z|a-z]{2,}\b
EmailRegex ==
    Cat(<<Wb, Plus(Cls(Alnum \cup {".", "_", "%", "+", "-"})), Ch("@"),
          Plus(Cls(Alnum \cup {".", "-"})), Ch("."),
          Rep(Cls(Upper \cup Lower \cup {"|"}), 2, -1), Wb>>)

\* \b(?:\d{4}[-\s]?){3}\d{1,7}\b
CreditCardRegex ==
    Cat(<<Wb,
          Rep(Cat(<<Rep(Cls(Digit), 4, 4), Opt(Cls({"-"} \cup Space))>>), 3, 3),
          Rep(Cls(Digit), 1, 7), Wb>>)

\* \b\d{3}-\d{2}-\d{4}\b
SsnRegex ==
    Cat(<<Wb, Rep(Cls(Digit), 3, 3), Ch("-"), Rep(Cls(Digit), 2, 2), Ch("-"),
          Rep(Cls(Digit), 4, 4), Wb>>)

\* \b(?:\+?1[-.\s]?)?(?:\(?[0-9]{3}\)?[-.\s]?[0-9]{3}[-.\s]?[0-9]{4})\b
PhoneRegex ==
    LET sep == Opt(Cls({"-", "."} \cup Space))
    IN  Cat(<<Wb, Opt(Cat(<<Opt(Ch("+")), Ch("1"), sep>>)),
              Cat(<<Opt(Ch("(")), Rep(Cls(Digit), 3, 3), Opt(Ch(")")), sep,
                    Rep(Cls(Digit), 3, 3), sep, Rep(Cls(Digit), 4, 4)>>),
              Wb>>)

\* \b(?:sk_|pk_|api_|key_|token_)[A-Za-z0-9]{20,}\b
ApiKeyRegex ==
    Cat(<<Wb,
          Alt(<<Cat(<<Ch("s"), Ch("k"), Ch("_")>>),
                Cat(<<Ch("p"), Ch("k"), Ch("_")>>),
                Cat(<<Ch("a"), Ch("p"), Ch("i"), Ch("_")>>),
                Cat(<<Ch("k"), Ch("e"), Ch("y"), Ch("_")>>),
                Cat(<<Ch("t"), Ch("o"), Ch("k"), Ch("e"), Ch("n"), Ch("_")>>)>>),
          Rep(Cls(Alnum), 20, -1), Wb>>)

\* \b(?:(?:25[0-5]|2[0-4][0-9]|[01]?[0-9][0-9]?)\.){3}(?:25[0-5]|2[0-4][0-9]|[01]?[0-9][0-9]?)\b
IpAddressRegex ==
    LET octet == Alt(<<Cat(<<Ch("2"), Ch("5"), Cls({"0", "1", "2", "3", "4", "5"})>>),
                       Cat(<<Ch("2"), Cls({"0", "1", "2", "3", "4"}), Cls(Digit)>>),
                       Cat(<<Opt(Cls({"0", "1"})), Cls(Digit), Opt(Cls(Digit))>>)>>)
    IN  Cat(<<Wb, Rep(Cat(<<octet, Ch(".")>>), 3, 3), octet, Wb>>)

\* \b(?:https?|ftp|ssh)://[^\s]+\b
UrlRegex ==
    Cat(<<Wb,
          Alt(<<Cat(<<Ch("h"), Ch("t"), Ch("t"), Ch("p"), Opt(Ch("s"))>>),
                Cat(<<Ch("f"), Ch("t"), Ch("p")>>),
                Cat(<<Ch("s"), Ch("s"), Ch("h")>>)>>),
          Ch(":"), Ch("/"), Ch("/"), Plus(NotCls(Space)), Wb>>)

\* \b\d{8,17}\b
BankAccountRegex == Cat(<<Wb, Rep(Cls(Digit), 8, 17), Wb>>)

\* the Vec<(SensitiveDataType, Regex)> in push order
build_patterns ==
    << <<"Email", EmailRegex>>,
       <<"CreditCard", CreditCardRegex>>,
       <<"SocialSecurityNumber", SsnRegex>>,
       <<"PhoneNumber", PhoneRegex>>,
       <<"ApiKey", ApiKeyRegex>>,
       <<"IpAddress", IpAddressRegex>>,
       <<"Url", UrlRegex>>,
       <<"BankAccount", BankAccountRegex>> >>

\* faulty variant of SensitiveMatch: the match carries a bounding box of its
\* own, one pixel high and as wide as the text is long
SensitiveMatch_with_box(data_type, text) ==
    [data_type |-> data_type, text |-> text, confidence |-> Confidence,
     x |-> 0, y |-> 0, width |-> Len(text), height |-> 1]

\* one SensitiveMatch, as the loop body builds it
SensitiveMatch(data_type, text) ==
    [data_type |-> data_type, text |-> text, confidence |-> Confidence,
     x |-> 0, y |-> 0, width |-> 0, height |-> 0]

RECURSIVE MatchesOf(_, _, _, _)
MatchesOf(data_type, found, text, k) ==
    IF k > Len(found) THEN <<>>
    ELSE <<SensitiveMatch(data_type, AsStr(text, found[k]))>>
         \o MatchesOf(data_type, found, text, k + 1)

\* whether the text of match m is already among the matches ms
AlreadyMatched(ms, m) == \E i \in 1..Len(ms) : ms[i].text = m.text

\* faulty variant of apply_patterns: a text that an earlier category has
\* matched is not reported again by a later one
RECURSIVE apply_patterns_first_category_wins(_, _, _)
apply_patterns_first_category_wins(patterns, text, k) ==
    IF k > Len(patterns) THEN <<>>
    ELSE LET first == MatchesOf(patterns[k][1], FindIter(patterns[k][2], text),
                                text, 1)
             later == apply_patterns_first_category_wins(patterns, text, k + 1)
         IN  first \o SelectSeq(later, LAMBDA m : ~AlreadyMatched(first, m))

\* "Apply pattern matching to extracted text": the nested for loops
RECURSIVE apply_patterns(_, _, _)
apply_patterns(patterns, text, k) ==
    IF k > Len(patterns) THEN <<>>
    ELSE MatchesOf(patterns[k][1], FindIter(patterns[k][2], text), text, 1)
         \o apply_patterns(patterns, text, k + 1)

PatternMatches(text) == apply_patterns(build_patterns, text, 1)

----------------------------------------------------------------------------
(* Frames.  A frame buffer of len pixels is kept sparsely: ink is the set of
   pixel indices that show sensitive text, block the set of pixel indices
   painted with the redaction colour, every other pixel is background; text
   is what is written on the screen the frame shows. *)

Frame(len, text, ink) == [len |-> len, text |-> text, ink |-> ink, block |-> {}]

\* Option::None of get_latest_frame
NoFrame == Frame(0, <<>>, {})

PlainText == <<"h", "i">>

EmailText == <<"a", "@", "b", ".", "c", "o">>

BothText == EmailText \o <<" ", "1", ".", "1", ".", "1", ".", "1">>

PlainFrame == Frame(Pixels(DisplayResolution), PlainText, {})

EmailFrame == Frame(Pixels(DisplayResolution), EmailText, {0, 1})

BothFrame == Frame(Pixels(DisplayResolution), BothText, {0, 1, 3, 4})

\* the frames the capture backend can deliver
CapturedFrames == {PlainFrame, EmailFrame, BothFrame}

\* gpu_renderer.create_test_pattern(): a fixed synthetic frame without text
create_test_pattern == Frame(Pixels(DisplayResolution), <<>>, {})

\* what render() can return; Timeout stands for every error that is neither
\* Lost nor OutOfMemory
RenderResults == {"Ok", "Lost", "OutOfMemory", "Timeout"}

\* faulty variant of latest_frame_or_test_pattern: no substitute, the tick goes
\* on with an empty buffer
latest_frame_or_empty(latest) == latest

\* .get_latest_frame().unwrap_or_else(|| self.gpu_renderer.create_test_pattern())
latest_frame_or_test_pattern(latest) ==
    IF latest = NoFrame THEN create_test_pattern ELSE latest

\* .get_display_resolution().unwrap_or_else(|_| DisplayResolution { 1920, 1080 })
resolution_or_default(query_ok) ==
    IF query_ok THEN DisplayResolution ELSE DefaultResolution

\* .get_display_resolution().unwrap_or_else(..) of App::resumed
window_resolution_or_default(query_ok) ==
    IF query_ok THEN DisplayResolution ELSE WindowFallbackResolution

\* rgba_to_grayscale: one luminance byte per RGBA pixel; the text stays legible
rgba_to_grayscale(buffer) == [len |-> buffer.len, text |-> buffer.text]

\* ImageBuffer::from_raw(width, height, ..) is Some iff the buffer is large enough
from_raw_ok(grayscale, width, height) == width * height <= grayscale.len

\* the transcripts get_text can return for the saved image: the text on the
\* screen when the image has the buffer's geometry; otherwise the rows are
\* sheared and the engine may or may not read it
Transcripts(grayscale, width, height) ==
    IF width * height = grayscale.len THEN {grayscale.text}
    ELSE {grayscale.text, <<>>}

\* the pixel indices a match covers once its rectangle is clamped to the frame
Covered(m, width, height, len) ==
    LET x_end == IF m.x + m.width < width THEN m.x + m.width ELSE width
        y_end == IF m.y + m.height < height THEN m.y + m.height ELSE height
    IN  {i \in {y * width + x : x \in m.x..(x_end - 1), y \in m.y..(y_end - 1)} :
            i < len}

\* faulty variant of apply_redaction: the block colour is combined with what
\* the pixel holds, so that painting a painted pixel again undoes the paint
apply_redaction_xor(buffer, width, height, matches) ==
    LET painted == UNION {Covered(matches[k], width, height, buffer.len) :
                            k \in 1..Len(matches)}
    IN  [buffer EXCEPT !.block = (@ \cup painted) \ (@ \cap painted),
                       !.ink = @ \ (painted \ buffer.block)]

\* detector.apply_redaction: paint every covered pixel with the block colour
apply_redaction(buffer, width, height, matches) ==
    LET painted == UNION {Covered(matches[k], width, height, buffer.len) :
                            k \in 1..Len(matches)}
    IN  [buffer EXCEPT !.block = @ \cup painted, !.ink = @ \ painted]

----------------------------------------------------------------------------
(* The observations of one handler run (history, read by the properties) *)

NoTick ==
    [kind |-> "none", frame_src |-> "none", raw |-> NoFrame,
     res_failed |-> FALSE, fallbacks |-> {}, cache_before |-> <<>>,
     count_before |-> 0,
     steps |-> <<>>, gate |-> FALSE, extraction |-> "skipped",
     patterns_ran |-> FALSE, detected |-> <<>>, applied |-> FALSE,
     applied_with |-> <<>>, handed |-> NoFrame]

NoResolution == [width |-> 0, height |-> 0]

Init ==
    /\ phase = "init"
    /\ pc = "idle"
    /\ capture_started = FALSE
    /\ sensitive_detector = FALSE
    /\ frame_count = 0
    /\ cached_sensitive_matches = <<>>
    /\ temp_file = FALSE
    /\ size = NoResolution
    /\ surface = "none"
    /\ redraw_requested = FALSE
    /\ texture_data = NoFrame
    /\ resolution = NoResolution
    /\ new_matches = <<>>
    /\ render_result = "none"
    /\ tick = NoTick
    /\ last_nonempty = <<>>
    /\ empty_run = 0

\* App::resumed, with SafeMirror::new and SensitiveDataDetector::new inside it
Resumed ==
    /\ phase = "init"
    /\ \E create_ok, window_query_ok, query_ok, start_ok, detector_ok \in BOOLEAN :
        IF ~create_ok
        THEN \* .expect("Failed to create screen capture")
             /\ phase' = "panicked"
             /\ tick' = [NoTick EXCEPT !.kind = "startup"]
             /\ UNCHANGED <<pc, capture_started, sensitive_detector, frame_count,
                            cached_sensitive_matches, temp_file, size, surface,
                            redraw_requested, texture_data, resolution,
                            new_matches, render_result, last_nonempty, empty_run>>
        ELSE /\ phase' = "running"
             /\ size' = window_resolution_or_default(window_query_ok)
             /\ surface' = "ok"
             /\ capture_started' = start_ok
             /\ sensitive_detector' = detector_ok
             /\ frame_count' = 0
             /\ cached_sensitive_matches' = <<>>
             /\ redraw_requested' = TRUE
             /\ tick' = [NoTick EXCEPT
                            !.kind = "startup",
                            !.fallbacks =
                                (IF window_query_ok THEN {}
                                 ELSE {window_resolution_or_default(FALSE)})
                                \cup (IF query_ok THEN {}
                                      ELSE {resolution_or_default(FALSE)})]
             /\ UNCHANGED <<pc, temp_file, texture_data, resolution, new_matches,
                            render_result, last_nonempty, empty_run>>

----------------------------------------------------------------------------
(* SafeMirror::update_and_render, step by step.  The handler runs to
   completion on the event-loop thread: no other handler interleaves. *)

\* RedrawRequested is dispatched; get_latest_frame and get_display_resolution
BeginTick ==
    /\ phase = "running"
    /\ pc = "idle"
    /\ redraw_requested
    /\ \E latest \in (IF capture_started THEN CapturedFrames ELSE {}) \cup {NoFrame},
          query_ok \in BOOLEAN :
        /\ texture_data' = latest_frame_or_test_pattern(latest)
        /\ resolution' = resolution_or_default(query_ok)
        /\ tick' = [NoTick EXCEPT
                       !.kind = "tick",
                       !.frame_src = IF latest = NoFrame THEN "test" ELSE "capture",
                       !.raw = latest_frame_or_test_pattern(latest),
                       !.res_failed = ~query_ok,
                       !.fallbacks = IF query_ok THEN {}
                                     ELSE {resolution_or_default(FALSE)},
                       !.cache_before = cached_sensitive_matches,
                       !.count_before = frame_count,
                       !.steps = <<"capture", "resolution">>]
    /\ redraw_requested' = FALSE
    /\ new_matches' = <<>>
    /\ render_result' = "none"
    /\ pc' = IF sensitive_detector THEN "detect" ELSE "redact"
    /\ UNCHANGED <<phase, capture_started, sensitive_detector, frame_count,
                   cached_sensitive_matches, temp_file, size, surface,
                   last_nonempty, empty_run>>

\* the value of frame_count after `self.frame_count += 1` in a build that wraps
next_frame_count(count) == (count + 1) % CounterModulus

\* faulty variant of ocr_due: the test is made on the count before it is
\* advanced, so that OCR runs on the first tick
ocr_due_before_increment(count) ==
    ((count + CounterModulus - 1) % CounterModulus) % DetectionInterval = 0

\* `self.frame_count % 60 != 0` is false: the tick runs OCR
ocr_due(count) == count % DetectionInterval = 0

\* What the OCR part of detect_sensitive_data (from rgba_to_grayscale to the
\* pattern loop) can come to: the returned matches, whether the temporary
\* file is left on disk, and how far extraction got.
ocr_outcomes(buffer, width, height, file) ==
    LET grayscale == rgba_to_grayscale(buffer)
        failed(at, left) == [extraction |-> at, temp_file |-> left,
                             patterns_ran |-> FALSE, matches |-> <<>>]
    IN  {failed("save_failed", file)}
        \cup (IF from_raw_ok(grayscale, width, height)
              THEN {failed("engine_failed", TRUE),
                    failed("set_image_failed", TRUE),
                    failed("get_text_failed", TRUE)}
                   \cup {[extraction |-> "ok", temp_file |-> FALSE,
                          patterns_ran |-> TRUE, matches |-> PatternMatches(text)] :
                            text \in Transcripts(grayscale, width, height)}
              ELSE {})

\* detector.detect_sensitive_data(&texture_data, resolution.width, resolution.height)
Detect ==
    /\ phase = "running"
    /\ pc = "detect"
    /\ \/ \* overflow of `self.frame_count += 1` in a build with overflow checks
          /\ frame_count = CounterModulus - 1
          /\ phase' = "panicked"
          /\ UNCHANGED <<pc, frame_count, new_matches, temp_file, tick>>
       \/ /\ frame_count' = next_frame_count(frame_count)
          /\ IF ~ocr_due(frame_count')
             THEN /\ new_matches' = <<>>
                  /\ tick' = [tick EXCEPT !.steps = Append(@, "detect")]
                  /\ UNCHANGED temp_file
             ELSE \E out \in ocr_outcomes(texture_data, resolution.width,
                                          resolution.height, temp_file) :
                  /\ new_matches' = out.matches
                  /\ temp_file' = out.temp_file
                  /\ tick' = [tick EXCEPT !.steps = Append(@, "detect"),
                                          !.gate = TRUE,
                                          !.extraction = out.extraction,
                                          !.patterns_ran = out.patterns_ran,
                                          !.detected = out.matches]
          /\ pc' = "cache"
          /\ UNCHANGED phase
    /\ UNCHANGED <<capture_started, sensitive_detector, cached_sensitive_matches,
                   size, surface, redraw_requested, texture_data, resolution,
                   render_result, last_nonempty, empty_run>>

\* faulty variant of UpdateCache: new matches are merged into the cache
UpdateCache_merge ==
    /\ phase = "running"
    /\ pc = "cache"
    /\ cached_sensitive_matches' = cached_sensitive_matches \o new_matches
    /\ tick' = [tick EXCEPT !.steps = Append(@, "cache")]
    /\ pc' = "redact"
    /\ UNCHANGED <<phase, capture_started, sensitive_detector, frame_count,
                   temp_file, size, surface, redraw_requested, texture_data,
                   resolution, new_matches, render_result, last_nonempty,
                   empty_run>>

\* faulty variant of UpdateCache: every tick on which OCR was due replaces the
\* cache, also with an empty result
UpdateCache_on_detection ==
    /\ phase = "running"
    /\ pc = "cache"
    /\ cached_sensitive_matches' =
           IF tick.gate THEN new_matches ELSE cached_sensitive_matches
    /\ tick' = [tick EXCEPT !.steps = Append(@, "cache")]
    /\ pc' = "redact"
    /\ UNCHANGED <<phase, capture_started, sensitive_detector, frame_count,
                   temp_file, size, surface, redraw_requested, texture_data,
                   resolution, new_matches, render_result, last_nonempty,
                   empty_run>>

\* faulty variant of UpdateCache: the emptiness test is missing
UpdateCache_always ==
    /\ phase = "running"
    /\ pc = "cache"
    /\ cached_sensitive_matches' = new_matches
    /\ tick' = [tick EXCEPT !.steps = Append(@, "cache")]
    /\ pc' = "redact"
    /\ UNCHANGED <<phase, capture_started, sensitive_detector, frame_count,
                   temp_file, size, surface, redraw_requested, texture_data,
                   resolution, new_matches, render_result, last_nonempty,
                   empty_run>>

\* `if !new_matches.is_empty() { self.cached_sensitive_matches = new_matches; }`
UpdateCache ==
    /\ phase = "running"
    /\ pc = "cache"
    /\ cached_sensitive_matches' =
           IF new_matches # <<>> THEN new_matches ELSE cached_sensitive_matches
    /\ tick' = [tick EXCEPT !.steps = Append(@, "cache")]
    /\ pc' = "redact"
    /\ UNCHANGED <<phase, capture_started, sensitive_detector, frame_count,
                   temp_file, size, surface, redraw_requested, texture_data,
                   resolution, new_matches, render_result, last_nonempty,
                   empty_run>>

\* faulty variant of Redact: redaction only on the ticks that detected something
Redact_on_detection_only ==
    /\ phase = "running"
    /\ pc = "redact"
    /\ IF new_matches # <<>> /\ sensitive_detector
       THEN /\ texture_data' = apply_redaction(texture_data, resolution.width,
                                               resolution.height,
                                               cached_sensitive_matches)
            /\ tick' = [tick EXCEPT !.steps = Append(@, "redact"),
                                    !.applied = TRUE,
                                    !.applied_with = cached_sensitive_matches]
       ELSE /\ tick' = [tick EXCEPT !.steps = Append(@, "redact")]
            /\ UNCHANGED texture_data
    /\ pc' = "present"
    /\ UNCHANGED <<phase, capture_started, sensitive_detector, frame_count,
                   cached_sensitive_matches, temp_file, size, surface,
                   redraw_requested, resolution, new_matches, render_result,
                   last_nonempty, empty_run>>

\* faulty variant of Redact: redaction with the cache as it was before this
\* tick's update
Redact_stale ==
    /\ phase = "running"
    /\ pc = "redact"
    /\ IF tick.cache_before # <<>> /\ sensitive_detector
       THEN /\ texture_data' = apply_redaction(texture_data, resolution.width,
                                               resolution.height,
                                               tick.cache_before)
            /\ tick' = [tick EXCEPT !.steps = Append(@, "redact"),
                                    !.applied = TRUE,
                                    !.applied_with = tick.cache_before]
       ELSE /\ tick' = [tick EXCEPT !.steps = Append(@, "redact")]
            /\ UNCHANGED texture_data
    /\ pc' = "present"
    /\ UNCHANGED <<phase, capture_started, sensitive_detector, frame_count,
                   cached_sensitive_matches, temp_file, size, surface,
                   redraw_requested, resolution, new_matches, render_result,
                   last_nonempty, empty_run>>

\* "Always apply redaction using cached matches (every frame)"
Redact ==
    /\ phase = "running"
    /\ pc = "redact"
    /\ IF cached_sensitive_matches # <<>> /\ sensitive_detector
       THEN /\ texture_data' = apply_redaction(texture_data, resolution.width,
                                               resolution.height,
                                               cached_sensitive_matches)
            /\ tick' = [tick EXCEPT !.steps = Append(@, "redact"),
                                    !.applied = TRUE,
                                    !.applied_with = cached_sensitive_matches]
       ELSE /\ tick' = [tick EXCEPT !.steps = Append(@, "redact")]
            /\ UNCHANGED texture_data
    /\ pc' = "present"
    /\ UNCHANGED <<phase, capture_started, sensitive_detector, frame_count,
                   cached_sensitive_matches, temp_file, size, surface,
                   redraw_requested, resolution, new_matches, render_result,
                   last_nonempty, empty_run>>

\* self.gpu_renderer.update_texture(&texture_data): the hand-off
UpdateTexture ==
    /\ phase = "running"
    /\ pc = "present"
    /\ tick' = [tick EXCEPT !.steps = Append(@, "present"),
                            !.handed = texture_data]
    /\ pc' = "render"
    /\ UNCHANGED <<phase, capture_started, sensitive_detector, frame_count,
                   cached_sensitive_matches, temp_file, size, surface,
                   redraw_requested, texture_data, resolution, new_matches,
                   render_result, last_nonempty, empty_run>>

\* self.gpu_renderer.resize(new_size): the surface is configured anew
renderer_resize(new_size) ==
    /\ size' = new_size
    /\ surface' = "ok"

\* the surface as render() leaves it: SurfaceError::Lost means it is lost
surface_after_render(r) == IF r = "Lost" THEN "lost" ELSE surface

\* faulty variant of handle_result: a lost surface is not configured anew
handle_result_no_reconfigure(r) ==
    CASE r = "OutOfMemory" ->
              /\ phase' = "exited"
              /\ surface' = surface_after_render(r)
              /\ UNCHANGED size
      [] OTHER ->
              /\ surface' = surface_after_render(r)
              /\ UNCHANGED <<phase, size>>

\* `match safe_mirror.update_and_render()` of App::window_event, for the
\* result r of render()
handle_result(r) ==
    CASE r = "Ok" ->
              /\ surface' = surface_after_render(r)
              /\ UNCHANGED <<phase, size>>
      [] r = "Lost" ->
              /\ renderer_resize(size)
              /\ UNCHANGED phase
      [] r = "OutOfMemory" ->
              /\ phase' = "exited"
              /\ surface' = surface_after_render(r)
              /\ UNCHANGED size
      [] OTHER ->
              /\ surface' = surface_after_render(r)
              /\ UNCHANGED <<phase, size>>

\* faulty variant of RenderAndHandle: a tick whose render() fails is undone, the
\* counter and the cache are put back to what they were when it began
RenderAndHandle_rollback ==
    /\ phase = "running"
    /\ pc = "render"
    /\ \E r \in RenderResults :
        /\ render_result' = r
        /\ handle_result(r)
        /\ frame_count' = IF r = "Ok" THEN frame_count ELSE tick.count_before
        /\ cached_sensitive_matches' =
               IF r = "Ok" THEN cached_sensitive_matches ELSE tick.cache_before
    /\ redraw_requested' = TRUE
    /\ pc' = "idle"
    /\ texture_data' = NoFrame
    /\ resolution' = NoResolution
    /\ new_matches' = <<>>
    /\ tick' = NoTick
    /\ IF tick.detected # <<>>
       THEN /\ last_nonempty' = tick.detected
            /\ empty_run' = 0
       ELSE /\ empty_run' = IF last_nonempty = <<>> \/ empty_run >= MaxEmptyRun
                            THEN empty_run ELSE empty_run + 1
            /\ UNCHANGED last_nonempty
    /\ UNCHANGED <<capture_started, sensitive_detector, temp_file>>

\* self.gpu_renderer.render() returns, App::window_event matches on the result
\* and requests the next redraw; the locals of update_and_render are dropped
RenderAndHandle ==
    /\ phase = "running"
    /\ pc = "render"
    /\ \E r \in RenderResults :
        /\ render_result' = r
        /\ handle_result(r)
    /\ redraw_requested' = TRUE
    /\ pc' = "idle"
    /\ texture_data' = NoFrame
    /\ resolution' = NoResolution
    /\ new_matches' = <<>>
    /\ tick' = NoTick
    /\ IF tick.detected # <<>>
       THEN /\ last_nonempty' = tick.detected
            /\ empty_run' = 0
       ELSE /\ empty_run' = IF last_nonempty = <<>> \/ empty_run >= MaxEmptyRun
                            THEN empty_run ELSE empty_run + 1
            /\ UNCHANGED last_nonempty
    /\ UNCHANGED <<capture_started, sensitive_detector, frame_count,
                   cached_sensitive_matches, temp_file>>

\* faulty variant of Resized: the mirror is set up anew for the new size, and
\* the cache and the counter start over
Resized_reset ==
    /\ phase = "running"
    /\ pc = "idle"
    /\ \E physical_size \in WindowSizes : renderer_resize(physical_size)
    /\ redraw_requested' = TRUE
    /\ cached_sensitive_matches' = <<>>
    /\ frame_count' = 0
    /\ UNCHANGED <<phase, pc, capture_started, sensitive_detector, temp_file,
                   texture_data, resolution, new_matches, render_result, tick,
                   last_nonempty, empty_run>>

\* WindowEvent::Resized(physical_size)
Resized ==
    /\ phase = "running"
    /\ pc = "idle"
    /\ \E physical_size \in WindowSizes : renderer_resize(physical_size)
    /\ redraw_requested' = TRUE
    /\ UNCHANGED <<phase, pc, capture_started, sensitive_detector, frame_count,
                   cached_sensitive_matches, temp_file, texture_data, resolution,
                   new_matches, render_result, tick, last_nonempty, empty_run>>

\* WindowEvent::CloseRequested
CloseRequested ==
    /\ phase = "running"
    /\ pc = "idle"
    /\ phase' = "exited"
    /\ redraw_requested' = TRUE
    /\ UNCHANGED <<pc, capture_started, sensitive_detector, frame_count,
                   cached_sensitive_matches, temp_file, size, surface,
                   texture_data, resolution, new_matches, render_result, tick,
                   last_nonempty, empty_run>>

\* the steps of one RedrawRequested handler run
TickStep ==
    BeginTick \/ Detect \/ UpdateCache \/ Redact \/ UpdateTexture \/ RenderAndHandle

Next == Resumed \/ TickStep \/ Resized \/ CloseRequested

Spec == Init /\ [][Next]_vars

----------------------------------------------------------------------------
(* Properties *)

\* the step is the cache update of update_and_render
IsCacheUpdateStep == pc = "cache" /\ pc' = "redact"

\* C1: the cache update of a tick leaves the cache equal to the tick's
\* detection result when that is non-empty and equal to the cache before the
\* tick when it is empty (detection not run, failed or nothing found); no
\* other step of any handler changes the cache.
C1_CacheUpdateRule ==
    [][/\ IsCacheUpdateStep =>
            cached_sensitive_matches' =
                IF tick.detected # <<>> THEN tick.detected ELSE tick.cache_before
       /\ ~IsCacheUpdateStep =>
            cached_sensitive_matches' = cached_sensitive_matches]_vars

\* a non-empty cache has been replaced wholesale by a different non-empty result
C1_Witness ==
    /\ pc = "redact"
    /\ tick.cache_before # <<>>
    /\ tick.detected # <<>>
    /\ tick.detected # tick.cache_before
    /\ Len(tick.detected) < Len(tick.cache_before)
    /\ cached_sensitive_matches = tick.detected

\* C2: between ticks, once some tick has had a non-empty detection result M,
\* the cache equals M after any number N of following ticks with empty results.
C2_CacheMonotonicity ==
    (pc = "idle" /\ last_nonempty # <<>>) =>
        cached_sensitive_matches = last_nonempty

\* more than a whole detection interval of empty ticks has passed, so one of
\* them was a tick on which OCR was due and gave nothing
C2_Witness ==
    /\ pc = "idle"
    /\ last_nonempty # <<>>
    /\ empty_run > DetectionInterval
    /\ cached_sensitive_matches = last_nonempty

\* a failure of the tick: no frame, no resolution, an extraction step failed,
\* or render() returned the error r
ExtractionFailed(t) ==
    t.extraction \in {"save_failed", "engine_failed", "set_image_failed",
                      "get_text_failed"}

TickFailed(t, r) ==
    t.frame_src = "test" \/ t.res_failed \/ ExtractionFailed(t) \/ r # "Ok"

\* the step that ends a tick
IsTickEnd == pc = "render" /\ pc' = "idle"

\* C3 as stated: a tick with a failure that started with a non-empty cache
\* ends with the cache it started with.
C3_AsStated ==
    [][(IsTickEnd /\ tick.cache_before # <<>> /\ TickFailed(tick, render_result'))
        => cached_sensitive_matches' = tick.cache_before]_vars

\* C3 amended: such a tick ends with the cache it started with, or with the
\* non-empty result detected on that very tick; with a failed extraction step
\* it ends with the cache it started with; the cache is never emptied.
C3_NoFailureClearsCache ==
    [][(IsTickEnd /\ tick.cache_before # <<>> /\ TickFailed(tick, render_result'))
        => /\ cached_sensitive_matches' # <<>>
           /\ \/ cached_sensitive_matches' = tick.cache_before
              \/ tick.detected # <<>> /\ cached_sensitive_matches' = tick.detected
           /\ ExtractionFailed(tick) =>
                cached_sensitive_matches' = tick.cache_before]_vars

\* a tick on which OCR was due with a non-empty cache and extraction failed
C3_Witness ==
    /\ pc = "render"
    /\ tick.cache_before # <<>>
    /\ tick.extraction = "get_text_failed"
    /\ cached_sensitive_matches = tick.cache_before

\* C4 as stated: on a tick with a detector, text extraction and pattern
\* matching execute iff the advanced tick counter is a multiple of 60; on
\* every other tick the result is empty and extraction is not invoked.
C4_AsStated ==
    pc = "cache" =>
        /\ (tick.gate /\ tick.patterns_ran) <=> (frame_count % DetectionInterval = 0)
        /\ frame_count % DetectionInterval # 0 =>
                new_matches = <<>> /\ tick.extraction = "skipped"

\* C4 amended: the counter starts at 0 and is advanced by one at the start of
\* detect_sensitive_data; extraction is attempted iff the advanced counter is a
\* multiple of 60; pattern matching executes iff moreover every extraction
\* step succeeded; on every other tick the result is empty and extraction is
\* not invoked.
C4_DutyCycle ==
    pc = "cache" =>
        /\ frame_count = (tick.count_before + 1) % CounterModulus
        /\ tick.gate <=> (frame_count % DetectionInterval = 0)
        /\ tick.patterns_ran <=>
                (frame_count % DetectionInterval = 0 /\ tick.extraction = "ok")
        /\ frame_count % DetectionInterval # 0 =>
                /\ new_matches = <<>>
                /\ tick.extraction = "skipped"
                /\ ~tick.patterns_ran

\* the 60th tick attempts extraction, an extraction step fails, and pattern
\* matching does not run
C4_Witness ==
    /\ pc = "cache"
    /\ tick.count_before = DetectionInterval - 1
    /\ frame_count = DetectionInterval
    /\ tick.gate
    /\ tick.extraction = "engine_failed"
    /\ ~tick.patterns_ran

\* C5: the buffer handed to the renderer is the tick's frame redacted with the
\* cache as it stands on that tick, and whenever the cache is non-empty the
\* applier has run with exactly the cache, on detection ticks and on the
\* others.
C5_RedactionEveryTick ==
    pc = "render" =>
        /\ tick.handed = apply_redaction(tick.raw, resolution.width,
                                         resolution.height,
                                         cached_sensitive_matches)
        /\ cached_sensitive_matches # <<>> =>
                tick.applied /\ tick.applied_with = cached_sensitive_matches

\* a tick on which OCR was not due hands off a frame redacted with the cache
C5_Witness ==
    /\ pc = "render"
    /\ ~tick.gate
    /\ cached_sensitive_matches # <<>>
    /\ tick.applied
    /\ tick.applied_with = cached_sensitive_matches
    /\ tick.handed # NoFrame

IsPrefix(p, q) == Len(p) <= Len(q) /\ SubSeq(q, 1, Len(p)) = p

\* the order of the steps of a tick, with and without a detector
StepOrder ==
    IF sensitive_detector
    THEN <<"capture", "resolution", "detect", "cache", "redact", "present">>
    ELSE <<"capture", "resolution", "redact", "present">>

\* C6: the steps of a tick run in the order capture, detect, cache update,
\* redact, present; what a tick detects is in the cache when that tick
\* redacts and is what the frame handed off on that tick is redacted with; no
\* frame is handed off before its tick has redacted.
C6_TickOrder ==
    /\ tick.kind = "tick" => IsPrefix(tick.steps, StepOrder)
    /\ tick.handed # NoFrame => tick.steps = StepOrder
    /\ (pc = "render" /\ tick.detected # <<>>) =>
            /\ cached_sensitive_matches = tick.detected
            /\ tick.applied
            /\ tick.applied_with = tick.detected
            /\ tick.handed = apply_redaction(tick.raw, resolution.width,
                                             resolution.height, tick.detected)

\* a tick that detected something new hands off a frame redacted with it
C6_Witness ==
    /\ pc = "render"
    /\ tick.detected # <<>>
    /\ tick.detected # tick.cache_before
    /\ tick.applied_with = tick.detected
    /\ tick.handed # NoFrame

\* C7 as stated: once the sensitive content on the screen has been detected
\* (which, content staying on the screen and extraction succeeding, happens
\* within one detection interval), every frame handed off while that content
\* is on the screen and its matches are cached has the pixels showing it
\* painted over.
C7_AsStated ==
    (/\ pc = "render"
     /\ tick.frame_src = "capture"
     /\ cached_sensitive_matches # <<>>
     /\ PatternMatches(tick.raw.text) = cached_sensitive_matches)
        => tick.handed.ink = {}

\* C8: when render() returns Lost the surface is configured anew at its
\* current size and the loop goes on; OutOfMemory makes the event loop exit;
\* any other error leaves everything as it is and the loop goes on; in the two
\* cases that go on a redraw is requested, so the next tick can start.
C8_PresentationFailurePolicy ==
    [][IsTickEnd =>
        /\ render_result' = "Lost" =>
                /\ surface' = "ok" /\ size' = size
                /\ phase' = "running" /\ redraw_requested' /\ pc' = "idle"
        /\ render_result' = "OutOfMemory" => phase' = "exited"
        /\ render_result' \notin {"Ok", "Lost", "OutOfMemory"} =>
                /\ surface' = surface /\ size' = size
                /\ phase' = "running" /\ redraw_requested' /\ pc' = "idle"]_vars

\* after a lost surface the loop is ready for its next tick
C8_Witness ==
    /\ render_result = "Lost"
    /\ phase = "running"
    /\ pc = "idle"
    /\ redraw_requested
    /\ surface = "ok"
    /\ frame_count > 1

\* C9: a tick that gets no frame from the capture goes on with the test
\* pattern: it always has a next step to take, and it reaches render() having
\* redacted and handed off the test pattern.
C9_NeverStallsOnCapture ==
    (phase = "running" /\ tick.kind = "tick" /\ tick.frame_src = "test") =>
        /\ tick.raw = create_test_pattern
        /\ ENABLED TickStep
        /\ pc = "render" =>
                /\ tick.steps = StepOrder
                /\ tick.handed = apply_redaction(create_test_pattern,
                                                 resolution.width,
                                                 resolution.height,
                                                 cached_sensitive_matches)

\* a tick without a frame has handed off the test pattern, redaction applied
C9_Witness ==
    /\ pc = "render"
    /\ tick.frame_src = "test"
    /\ tick.applied
    /\ tick.handed.len = create_test_pattern.len

\* C10 as stated: a tick whose resolution query fails goes on with the fixed
\* default resolution and reaches render(); and every place where a resolution
\* query fails substitutes that same default.
C10_AsStated ==
    /\ (pc = "render" /\ tick.res_failed) =>
            resolution = DefaultResolution /\ tick.steps = StepOrder
    /\ \A r \in tick.fallbacks : r = DefaultResolution

\* C11 as stated: no failure during startup (capture creation, capture start,
\* detector setup) aborts it: the handler ends with the render loop running;
\* without a detector every tick skips detection and the cache stays empty;
\* without a started capture every tick presents the test pattern.
C11_AsStated ==
    /\ tick.kind = "startup" => phase # "panicked"
    /\ (phase = "running" /\ ~sensitive_detector) =>
            /\ cached_sensitive_matches = <<>>
            /\ tick.kind = "tick" => ~tick.gate /\ tick.detected = <<>>
    /\ (phase = "running" /\ ~capture_started /\ tick.kind = "tick") =>
            tick.frame_src = "test" /\ tick.raw = create_test_pattern

\* C12 as stated: between ticks nothing of a tick's frame is left: the locals
\* of update_and_render that held it are gone, and the temporary grayscale
\* image written for extraction is not on disk, also after a tick on which an
\* extraction step failed.
C12_AsStated ==
    (phase \in {"running", "exited"} /\ pc = "idle") =>
        /\ texture_data = NoFrame
        /\ tick.raw = NoFrame /\ tick.handed = NoFrame
        /\ ~temp_file

----------------------------------------------------------------------------
(* The pattern loop of detect_sensitive_data as a function of the transcript:
   a run starts after get_text has returned some transcript and applies the
   catalog to it. *)

\* the number of words of the longest transcript
MaxWords == 2

Chars(str) ==
    CASE str = "email" -> <<"a", "@", "b", ".", "c", "o">>
      [] str = "email2" -> <<"c", "@", "d", ".", "i", "o">>
      [] str = "card" -> <<"4", "5", "3", "2", "-", "1", "2", "3", "4", "-",
                           "5", "6", "7", "8", "-", "9", "0", "1", "2">>
      [] str = "ssn" -> <<"1", "2", "3", "-", "4", "5", "-", "6", "7", "8", "9">>
      [] str = "phone" -> <<"5", "5", "5", "1", "2", "3", "4", "5", "6", "7">>
      [] str = "key" -> <<"p", "k", "_", "A", "b", "1", "A", "b", "1", "A", "b",
                          "1", "A", "b", "1", "A", "b", "1", "A", "b", "1",
                          "A", "b">>
      [] str = "ip" -> <<"1", "9", "2", ".", "1", "6", "8", ".", "1", ".", "1">>
      [] str = "url" -> <<"f", "t", "p", ":", "/", "/", "a", "@", "b", ".", "c", "o">>
      [] str = "plain" -> <<"h", "i">>
      [] str = "email_literal" ->
            <<"u", "s", "e", "r", "@", "e", "x", "a", "m", "p", "l", "e",
              ".", "c", "o", "m">>
      [] str = "key_literal" ->
            <<"s", "k", "_", "t", "e", "s", "t", "_", "a", "b", "c", "1",
              "2", "3", "d", "e", "f", "4", "5", "6", "7", "8", "9", "0",
              "1", "2">>

\* the words a transcript is made of: for every category a string it matches,
\* among them strings that two categories match (phone: PhoneNumber and
\* BankAccount; url: Url, and Email inside it), and one that none matches
Words == {"email", "email2", "card", "ssn", "phone", "key", "ip", "url", "plain"}

RECURSIVE JoinWords(_, _)
JoinWords(ws, k) ==
    IF k > Len(ws) THEN <<>>
    ELSE (IF k > 1 THEN <<" ">> ELSE <<>>) \o Chars(ws[k]) \o JoinWords(ws, k + 1)

\* "user@example.com 4532-1234-5678-9012 192.168.1.1 sk_test_abc123def456789012"
LiteralTranscript ==
    JoinWords(<<"email_literal", "card", "ip", "key_literal">>, 1)

\* the transcripts get_text returns in these runs
TranscriptInputs ==
    {JoinWords(ws, 1) : ws \in UNION {[1..n -> Words] : n \in 1..MaxWords}}
        \cup {LiteralTranscript}

\* get_text has returned the transcript of the frame
InitPatterns ==
    /\ phase = "running"
    /\ pc = "detect"
    /\ capture_started = TRUE
    /\ sensitive_detector = TRUE
    /\ frame_count = DetectionInterval
    /\ cached_sensitive_matches = <<>>
    /\ temp_file = TRUE
    /\ size = DisplayResolution
    /\ surface = "ok"
    /\ redraw_requested = FALSE
    /\ texture_data \in {Frame(Pixels(DisplayResolution), t, {}) :
                            t \in TranscriptInputs}
    /\ resolution = DisplayResolution
    /\ new_matches = <<>>
    /\ render_result = "none"
    /\ tick = [NoTick EXCEPT !.kind = "tick", !.gate = TRUE]
    /\ last_nonempty = <<>>
    /\ empty_run = 0

\* remove_file, then the pattern loop over the transcript
ApplyPatterns ==
    /\ phase = "running"
    /\ pc = "detect"
    /\ new_matches' = PatternMatches(texture_data.text)
    /\ temp_file' = FALSE
    /\ tick' = [tick EXCEPT !.extraction = "ok", !.patterns_ran = TRUE,
                            !.detected = new_matches']
    /\ pc' = "cache"
    /\ UNCHANGED <<phase, capture_started, sensitive_detector, frame_count,
                   cached_sensitive_matches, size, surface, redraw_requested,
                   texture_data, resolution, render_result, last_nonempty,
                   empty_run>>

NextPatterns == ApplyPatterns

SpecPatterns == InitPatterns /\ [][NextPatterns]_vars

\* the categories in the order the output lists them
CategoryOrder ==
    <<"Email", "CreditCard", "SocialSecurityNumber", "PhoneNumber", "ApiKey",
      "IpAddress", "Url", "BankAccount">>

Rank(data_type) == CHOOSE k \in 1..Len(CategoryOrder) : CategoryOrder[k] = data_type

\* the [start, end) spans in text at which the regex of category k matches when
\* it is applied on its own
SpansOf(k, text) == FindIter(build_patterns[k][2], text)

\* the matches of one category in ms, in the order of ms
OfCategory(ms, data_type) == SelectSeq(ms, LAMBDA m : m.data_type = data_type)

\* C13: the matches returned for a transcript are grouped by category in the
\* order Email, CreditCard, SocialSecurityNumber, PhoneNumber, ApiKey,
\* IpAddress, Url, BankAccount; none has category Password; the matches of one
\* category are the texts of the spans its regex matches on its own, from left
\* to right and without overlap, whatever the other categories match.
C13_DetectionOrder ==
    pc = "cache" =>
        LET ms == new_matches
            text == texture_data.text
        IN  /\ \A i \in 1..Len(ms) :
                    /\ ms[i].data_type # "Password"
                    /\ \E k \in 1..Len(CategoryOrder) : CategoryOrder[k] = ms[i].data_type
            /\ \A i, j \in 1..Len(ms) :
                    i < j => Rank(ms[i].data_type) <= Rank(ms[j].data_type)
            /\ \A k \in 1..Len(CategoryOrder) :
                    LET spans == SpansOf(k, text)
                        got == OfCategory(ms, CategoryOrder[k])
                    IN  /\ build_patterns[k][1] = CategoryOrder[k]
                        /\ Len(got) = Len(spans)
                        /\ \A i \in 1..Len(spans) :
                                got[i].text = AsStr(text, spans[i])
                        /\ \A i \in 1..(Len(spans) - 1) :
                                spans[i].end <= spans[i + 1].start

\* a transcript with a URL that holds an e-mail address, then another e-mail
\* address: the two Email matches come first, from left to right, and the Url
\* match over the span of the first of them is reported as well
C13_Witness ==
    /\ pc = "cache"
    /\ tick.patterns_ran
    /\ texture_data.text = JoinWords(<<"url", "email2">>, 1)
    /\ Len(new_matches) = 3
    /\ new_matches[1] = SensitiveMatch("Email", Chars("email"))
    /\ new_matches[2] = SensitiveMatch("Email", Chars("email2"))
    /\ new_matches[3] = SensitiveMatch("Url", Chars("url"))

\* some match of ms has this category and this text
Yields(ms, data_type, word) ==
    \E i \in 1..Len(ms) : ms[i] = SensitiveMatch(data_type, Chars(word))

\* C14 as stated: for the transcript "user@example.com 4532-1234-5678-9012
\* 192.168.1.1 sk_test_abc123def456789012" the catalog yields an Email match
\* user@example.com, a CreditCard match 4532-1234-5678-9012, an IpAddress match
\* 192.168.1.1 and an ApiKey match sk_test_abc123def456789012.
C14_AsStated ==
    (pc = "cache" /\ texture_data.text = LiteralTranscript) =>
        /\ Yields(new_matches, "Email", "email_literal")
        /\ Yields(new_matches, "CreditCard", "card")
        /\ Yields(new_matches, "IpAddress", "ip")
        /\ Yields(new_matches, "ApiKey", "key_literal")

----------------------------------------------------------------------------
(* The redaction applier as a function of the frame and the match set: a run
   starts at the redaction step of a tick with some frame and some cache, and
   applies the cache to the frame once and then once more. *)

\* the geometry of the frames of these runs
FrameWidth == 3

FrameHeight == 2

\* the number of matches of the largest match set
MaxMatches == 2

SmallResolution == [width |-> FrameWidth, height |-> FrameHeight]

\* a match with the rectangle (x, y, width, height)
MatchAt(x, y, width, height) ==
    [SensitiveMatch("Email", EmailText) EXCEPT
        !.x = x, !.y = y, !.width = width, !.height = height]

\* the rectangles of these runs: empty ones, ones inside the frame, ones that
\* reach past its right or bottom edge, ones that lie wholly beyond it
Rectangles ==
    {MatchAt(x, y, w, h) : x \in {0, FrameWidth - 1, FrameWidth},
                           y \in {0, FrameHeight - 1},
                           w \in {0, 1, FrameWidth},
                           h \in {1, FrameHeight}}

\* the match sets, with rectangles that overlap or repeat
MatchSets == UNION {[1..n -> Rectangles] : n \in 0..MaxMatches}

\* the frames: one without and one with pixels that show text
SmallFrames ==
    {Frame(Pixels(SmallResolution), EmailText, ink) :
        ink \in {{}, {0, FrameWidth - 1, FrameWidth}}}

\* the tick has reached its redaction step
InitRedaction ==
    /\ phase = "running"
    /\ pc = "redact"
    /\ capture_started = TRUE
    /\ sensitive_detector = TRUE
    /\ frame_count = 1
    /\ cached_sensitive_matches \in MatchSets
    /\ temp_file = FALSE
    /\ size = SmallResolution
    /\ surface = "ok"
    /\ redraw_requested = FALSE
    /\ texture_data \in SmallFrames
    /\ resolution = SmallResolution
    /\ new_matches = <<>>
    /\ render_result = "none"
    /\ tick = [NoTick EXCEPT !.kind = "tick", !.frame_src = "capture",
                             !.raw = texture_data,
                             !.cache_before = cached_sensitive_matches,
                             !.steps = <<"capture", "resolution", "detect", "cache">>]
    /\ last_nonempty = <<>>
    /\ empty_run = 0

\* the same call of apply_redaction made a second time on the redacted buffer
RedactAgain ==
    /\ phase = "running"
    /\ pc = "present"
    /\ texture_data' =
           IF cached_sensitive_matches # <<>> /\ sensitive_detector
           THEN apply_redaction(texture_data, resolution.width, resolution.height,
                                cached_sensitive_matches)
           ELSE texture_data
    /\ tick' = [tick EXCEPT !.handed = texture_data]
    /\ pc' = "render"
    /\ UNCHANGED <<phase, capture_started, sensitive_detector, frame_count,
                   cached_sensitive_matches, temp_file, size, surface,
                   redraw_requested, resolution, new_matches, render_result,
                   last_nonempty, empty_run>>

NextRedaction == Redact \/ RedactAgain

SpecRedaction == InitRedaction /\ [][NextRedaction]_vars

\* what pixel i of a buffer shows
Colour(buffer, i) ==
    IF i \in buffer.block THEN "block"
    ELSE IF i \in buffer.ink THEN "ink" ELSE "background"

\* pixel i of a frame of the given geometry lies in the rectangle of m clamped
\* to the frame
InClamped(m, i, width, height) ==
    LET px == i % width
        py == i \div width
    IN  /\ py < height
        /\ m.x <= px /\ px < m.x + m.width
        /\ m.y <= py /\ py < m.y + m.height

InSomeClamped(ms, i, width, height) ==
    \E k \in 1..Len(ms) : InClamped(ms[k], i, width, height)

\* C15: applying the redaction to a frame a second time with the same match
\* set gives the buffer the first application gave, and after either
\* application every pixel outside all the clamped rectangles shows what it
\* showed in the frame.
C15_RedactionIdempotent ==
    LET outside_unchanged ==
            \A i \in 0..(tick.raw.len - 1) :
                ~InSomeClamped(cached_sensitive_matches, i, resolution.width,
                               resolution.height)
                    => Colour(texture_data, i) = Colour(tick.raw, i)
    IN  /\ pc = "present" => outside_unchanged
        /\ pc = "render" =>
                /\ texture_data = tick.handed
                /\ texture_data.len = tick.raw.len
                /\ outside_unchanged

\* the cache holds two overlapping rectangles, one of them reaching past the
\* right edge of the frame; the second application has run, some pixels are
\* painted and a pixel that shows text is outside the rectangles
C15_Witness ==
    /\ pc = "render"
    /\ tick.applied
    /\ Len(cached_sensitive_matches) = 2
    /\ cached_sensitive_matches[1] = MatchAt(0, 0, FrameWidth, 1)
    /\ cached_sensitive_matches[2] = MatchAt(FrameWidth - 1, 0, FrameWidth, FrameHeight)
    /\ texture_data.block =
           (0..(FrameWidth - 1))
               \cup {y * FrameWidth + FrameWidth - 1 : y \in 0..(FrameHeight - 1)}
    /\ Colour(tick.raw, FrameWidth) = "ink"
    /\ Colour(texture_data, FrameWidth) = "ink"

\* C16 as stated: every run of update_and_render, with or without a detector
\* and whatever fails later in it, advances the tick counter by exactly one;
\* the counter never decreases or wraps, and no tick stops on it; so a tick on
\* which OCR is due comes exactly 60 ticks after the previous one.
C16_AsStated ==
    /\ (tick.kind = "tick" /\ pc # "detect") =>
            frame_count = tick.count_before + 1
    /\ tick.kind = "tick" => phase # "panicked"
    /\ (tick.kind = "tick" /\ tick.gate) =>
            tick.count_before % DetectionInterval = DetectionInterval - 1

\* the rectangle and the confidence every match is built with
IsZeroRectangle(m) ==
    m.x = 0 /\ m.y = 0 /\ m.width = 0 /\ m.height = 0 /\ m.confidence = <<8, 10>>

AllZeroRectangles(ms) == \A k \in 1..Len(ms) : IsZeroRectangle(ms[k])

\* C17: every match detect_sensitive_data returns, and so every match in the
\* cache, has the rectangle x = 0, y = 0, width = 0, height = 0 and the
\* confidence 0.8; the redaction step therefore changes no pixel: the buffer
\* handed to the renderer is the frame as it was captured.
C17_ZeroRectangles ==
    /\ AllZeroRectangles(new_matches)
    /\ AllZeroRectangles(tick.detected)
    /\ AllZeroRectangles(cached_sensitive_matches)
    /\ AllZeroRectangles(tick.applied_with)
    /\ (tick.kind = "tick" /\ phase = "running") => texture_data = tick.raw
    /\ pc = "render" => tick.handed = tick.raw

\* a frame showing sensitive text has gone through redaction with a non-empty
\* cache and is handed to the renderer with the text still on it
C17_Witness ==
    /\ pc = "render"
    /\ tick.applied
    /\ cached_sensitive_matches # <<>>
    /\ tick.applied_with = cached_sensitive_matches
    /\ tick.raw.ink # {}
    /\ tick.handed = tick.raw
    /\ tick.handed.block = {}

\* the step that starts a tick
IsTickStart == pc = "idle" /\ pc' # "idle"

\* C18: a tick whose render() returns an error keeps what it did before: when
\* it ends, the counter is the advanced one and the cache is the one its cache
\* update left (its own detection result when that was non-empty); the next
\* tick starts from that counter and that cache, and when the failed tick was
\* one on which OCR was due, OCR is not due again on the next tick.
C18_NoRollback ==
    [][/\ (IsTickEnd /\ render_result' # "Ok") =>
            /\ frame_count' = frame_count
            /\ sensitive_detector =>
                    frame_count' = (tick.count_before + 1) % CounterModulus
            /\ cached_sensitive_matches' =
                    IF tick.detected # <<>> THEN tick.detected
                    ELSE tick.cache_before
            /\ (tick.gate /\ phase' = "running") =>
                    ~ocr_due(next_frame_count(frame_count'))
       /\ (IsTickStart /\ render_result \notin {"Ok", "none"}) =>
            /\ tick'.count_before = frame_count
            /\ tick'.cache_before = cached_sensitive_matches]_vars

\* the second tick on which OCR was due has found something, replaced the
\* cache and then lost the surface; the loop is ready for the next tick with
\* the advanced counter and the new cache
C18_Witness ==
    /\ phase = "running"
    /\ pc = "idle"
    /\ redraw_requested
    /\ render_result = "Lost"
    /\ frame_count = 2 * DetectionInterval
    /\ empty_run = 0
    /\ last_nonempty # <<>>
    /\ cached_sensitive_matches = last_nonempty

\* the step is the handling of a Resized event
IsResizedStep ==
    /\ phase = "running" /\ phase' = "running"
    /\ pc = "idle" /\ pc' = "idle"

\* C19: a resize, whether for a Resized event between two ticks or for the
\* recovery of a lost surface at the end of a tick, leaves the cache, the
\* counter and the presence of the detector as they are; a Resized event
\* changes nothing but the size and the state of the surface and asks for a
\* redraw.
C19_ResizeFrame ==
    [][/\ (IsResizedStep \/ (IsTickEnd /\ render_result' = "Lost")) =>
            /\ cached_sensitive_matches' = cached_sensitive_matches
            /\ frame_count' = frame_count
            /\ sensitive_detector' = sensitive_detector
            /\ surface' = "ok"
       /\ IsResizedStep =>
            /\ size' \in WindowSizes
            /\ UNCHANGED <<capture_started, temp_file, texture_data, resolution,
                           new_matches, render_result, tick, last_nonempty,
                           empty_run>>]_vars

\* between two ticks, after a detection has filled the cache, the window has
\* been resized to a size that only a Resized event gives it
C19_Witness ==
    /\ phase = "running"
    /\ pc = "idle"
    /\ size = [width |-> 800, height |-> 600]
    /\ size # DisplayResolution /\ size # WindowFallbackResolution
    /\ surface = "ok"
    /\ sensitive_detector
    /\ frame_count > DetectionInterval
    /\ cached_sensitive_matches # <<>>
    /\ cached_sensitive_matches = last_nonempty

====
